---- MODULE Spec2Model ----
(***************************************************************************)
(* Model of toolman.org/net/lameduck: Runner.Run (server.go) with its two  *)
(* errgroup goroutines, waitForSignal (signals.go), Runner.close and the   *)
(* Server / signal source / caller context they interact with; newRunner   *)
(* and the options it applies.                                             *)
(*   Spec         one Run on a Runner that newRunner has returned          *)
(*   SpecRerun    Spec, and a second Run on the same Runner                *)
(*   SpecFair     Spec with fair scheduling and a cooperative Server       *)
(*   SpecOptions  newRunner on any Server and any list of options          *)
(***************************************************************************)
EXTENDS Integers, Sequences, FiniteSets, TLC

\* Number of trigger signals the environment emits during one run.
MaxSignals == 2

\* Length of the longest option list handed to NewRunner / Run.
MaxOptions == 3

VARIABLES
    runPc,        \* position of Runner.Run: "new", "running", "returned"
    pc1,          \* position of goroutine #1 (signal/shutdown path)
    pc2,          \* position of goroutine #2 (serve path)
    callerErr,    \* Err() of the context the caller hands to Run
    ctxErr,       \* Err() of the run context (errgroup ctx + WithCancel)
    sctxErr,      \* Err() of the WithTimeout context handed to Shutdown
    ch,           \* buffered signal channel of waitForSignal (capacity 1)
    subscribed,   \* sig.notify(ch, ...) in force and not yet sig.stop(ch)
    chClosed,     \* close(ch) has run
    wsErr,        \* error result of waitForSignal ("nil": a signal was received)
    ready,        \* r.ready is closed
    done,         \* r.done is closed
    once,         \* r.once has fired
    egErr,        \* errgroup's g.err (first non-nil error of a goroutine)
    g1Ret,        \* return value of goroutine #1
    g2Ret,        \* return value of goroutine #2
    result,       \* return value of Run
    serveRet,     \* return value of server.Serve
    shutdownRet,  \* return value of server.Shutdown
    closeRet,     \* return value of server.Close
    calls,        \* number of invocations of Serve, Shutdown, Close; closes of ready, done
    sigSent,      \* number of trigger signals emitted so far
    graceElapsed, \* r.period has elapsed while Shutdown was in progress
    state,        \* r.state, the value State() returns
    psHook,       \* r.psHook is set (WithPreShutdownHook was given)
    escOK,        \* r.escOK (ErrServerClosedOK was given)
    hist,         \* order in which the run's events first happened
    sigCalls,     \* number of sig.notify and sig.stop calls made by waitForSignal
    newPc,        \* position of newRunner: "call", "apply", "returned", "panicked"
    svr,          \* the Server handed to newRunner: "nil" or "server"
    options,      \* the options handed to newRunner
    applied,      \* number of options whose set(r) has run
    cfg,          \* option-settable fields of the Runner under construction
    newRet,       \* *Runner returned by newRunner: "none", "nil" or "r"
    newErr        \* error returned by newRunner ("nil": no error)

\* The variables of newRunner.
newVars == <<newPc, svr, options, applied, cfg, newRet, newErr>>

vars == <<runPc, pc1, pc2, callerErr, ctxErr, sctxErr, ch, subscribed, chClosed,
          wsErr, ready, done, once, egErr, g1Ret, g2Ret, result, serveRet,
          shutdownRet, closeRet, calls, sigSent, graceElapsed, hist, state,
          psHook, escOK, sigCalls, newVars>>

-----------------------------------------------------------------------------
\* Error values.  A Go error is a record: lde says whether it is a
\* *LameDuckError, expired is its Expired field, err the (wrapped) error.

Raw(e) == [lde |-> FALSE, expired |-> FALSE, err |-> e]

LameDuckError(expired, e) == [lde |-> TRUE, expired |-> expired, err |-> e]

Nil == Raw("nil")

NoRet == Raw("none")

\* Errors a Server's Serve may return of its own accord.
ServeErrors == {"ErrServeFailed", "ErrServerClosed"}

\* Errors a Server's Shutdown / Close may return of their own accord.
ShutdownErrors == {"ErrShutdownFailed"}

CloseErrors == {"ErrCloseFailed"}

\* context.Context: a derived context takes its parent's error unless it
\* already has one of its own (Err is set once).
Propagate(child, parentErr) == IF child = "nil" THEN parentErr ELSE child

\* CancelFunc of a context: Err becomes context.Canceled unless already set.
Cancel(c) == IF c = "nil" THEN "Canceled" ELSE c

\* First occurrence of an event is appended to the history.
Seen(e) == \E i \in 1..Len(hist) : hist[i] = e

Log(e) == IF Seen(e) THEN hist ELSE Append(hist, e)

Pos(e) == CHOOSE i \in 1..Len(hist) : hist[i] = e

\* a happened, and b did not happen before it.
Before(a, b) == Seen(a) /\ (Seen(b) => Pos(a) < Pos(b))

Bump(f) == [calls EXCEPT ![f] = @ + 1]

-----------------------------------------------------------------------------
\* Options and newRunner.

\* defaultPeriod = 3 * time.Second (durations are counted in seconds).
defaultPeriod == 3

defaultSignals == {"SIGINT", "SIGTERM"}

\* The Option values: Period(p) is period(p), Signals(s...) is signals(s),
\* WithLogger(l) is &loggerOption{l}, WithoutLogger() is &loggerOption{} (its
\* logger is the nil interface), WithPreShutdownHook(f) is hookFunction(f),
\* ErrServerClosedOK() is new(escOK).
Period(p) == [kind |-> "period", p |-> p]

Signals(s) == [kind |-> "signals", s |-> s]

WithLogger(l) == [kind |-> "logger", logger |-> l]

WithoutLogger == [kind |-> "logger", logger |-> "nil"]

WithPreShutdownHook(f) == [kind |-> "hook", f |-> f]

ErrServerClosedOK == [kind |-> "escOK"]

\* The options a caller may hand over: a non-positive and a positive period,
\* an empty and a one-signal list, a logger and none, two hooks, the flag.
Options ==
    {Period(0), Period(5), Signals({}), Signals({"SIGHUP"}), WithLogger("tl"),
     WithoutLogger, WithPreShutdownHook("hook1"), WithPreShutdownHook("hook2"),
     ErrServerClosedOK}

\* All option lists of at most n options.
OptionLists(n) == UNION {[1..k -> Options] : k \in 0..n}

\* The Runner literal of newRunner: the fields an option can set.
defaultRunner ==
    [period |-> defaultPeriod, signals |-> defaultSignals, logf |-> "log.Infof",
     psHook |-> "nil", escOK |-> FALSE]

\* No Runner has been made yet: the zero values of the fields.
zeroRunner ==
    [period |-> 0, signals |-> {}, logf |-> "nil", psHook |-> "nil", escOK |-> FALSE]

\* loggerOption.set evaluates the method value o.logger.Infof: with a nil
\* interface in o.logger (WithoutLogger) that is a nil dereference, a run-time
\* panic.
setPanics(o) == o.kind = "logger" /\ o.logger = "nil"

\* The method value l.Infof of a non-nil Logger l.  It is never nil, so the
\* "silent logger" branch of loggerOption.set is never taken.
Infof(l) == l

\* Variant of set in which a Signals option adds to the list in force.
set_signalsMerged(o, r) ==
    CASE o.kind = "period" -> [r EXCEPT !.period = o.p]
      [] o.kind = "signals" -> [r EXCEPT !.signals = @ \cup o.s]
      [] o.kind = "logger" ->
            [r EXCEPT !.logf = IF Infof(o.logger) = "nil" THEN "noop" ELSE Infof(o.logger)]
      [] o.kind = "hook" -> [r EXCEPT !.psHook = o.f]
      [] o.kind = "escOK" -> [r EXCEPT !.escOK = TRUE]

\* Option.set: period.set, signals.set, loggerOption.set (when it does not
\* panic), hookFunction.set, escOK.set.
set(o, r) ==
    CASE o.kind = "period" -> [r EXCEPT !.period = o.p]
      [] o.kind = "signals" -> [r EXCEPT !.signals = o.s]
      [] o.kind = "logger" ->
            [r EXCEPT !.logf = IF Infof(o.logger) = "nil" THEN "noop" ELSE Infof(o.logger)]
      [] o.kind = "hook" -> [r EXCEPT !.psHook = o.f]
      [] o.kind = "escOK" -> [r EXCEPT !.escOK = TRUE]

\* for _, o := range options { o.set(r) }, for options none of which panics.
RECURSIVE applyOptions(_, _)
applyOptions(opts, r) ==
    IF opts = <<>> THEN r ELSE applyOptions(Tail(opts), set(Head(opts), r))

\* The checks after the loop: the error newRunner returns, "nil" for none.
validate(r) ==
    CASE r.period <= 0 -> "lame-duck period must be greater than zero"
      [] r.signals = {} -> "no lame-duck signals defined"
      [] OTHER -> "nil"

\* The option lists of the runs: with and without a pre-shutdown hook, with
\* and without ErrServerClosedOK.
RunOptions ==
    {<<>>, <<WithPreShutdownHook("hook1")>>, <<ErrServerClosedOK>>,
     <<WithPreShutdownHook("hook1"), ErrServerClosedOK>>}

-----------------------------------------------------------------------------
Init ==
    /\ runPc = "new"
    /\ pc1 = "idle"
    /\ pc2 = "idle"
    /\ callerErr = "nil"
    /\ ctxErr = "unset"
    /\ sctxErr = "unset"
    /\ ch = <<>>
    /\ subscribed = FALSE
    /\ chClosed = FALSE
    /\ wsErr = "none"
    /\ ready = FALSE
    /\ done = FALSE
    /\ once = FALSE
    /\ egErr = Nil
    /\ g1Ret = NoRet
    /\ g2Ret = NoRet
    /\ result = NoRet
    /\ serveRet = "none"
    /\ shutdownRet = "none"
    /\ closeRet = "none"
    /\ calls = [Serve |-> 0, Shutdown |-> 0, Close |-> 0, ready |-> 0, done |-> 0,
                psHook |-> 0]
    /\ sigSent = 0
    /\ graceElapsed = FALSE
    /\ hist = <<>>
    /\ state = "NotStarted"
    /\ sigCalls = [notify |-> 0, stop |-> 0]
    /\ newPc = "returned"
    /\ svr = "server"
    /\ options \in RunOptions
    /\ applied = Len(options)
    /\ cfg = applyOptions(options, defaultRunner)
    /\ newRet = "r"
    /\ newErr = "nil"
    /\ psHook = (cfg.psHook # "nil")
    /\ escOK = cfg.escOK

\* Before NewRunner / Run is called: a Server (or nil) and a list of options.
InitOptions ==
    /\ runPc = "new"
    /\ pc1 = "idle"
    /\ pc2 = "idle"
    /\ callerErr = "nil"
    /\ ctxErr = "unset"
    /\ sctxErr = "unset"
    /\ ch = <<>>
    /\ subscribed = FALSE
    /\ chClosed = FALSE
    /\ wsErr = "none"
    /\ ready = FALSE
    /\ done = FALSE
    /\ once = FALSE
    /\ egErr = Nil
    /\ g1Ret = NoRet
    /\ g2Ret = NoRet
    /\ result = NoRet
    /\ serveRet = "none"
    /\ shutdownRet = "none"
    /\ closeRet = "none"
    /\ calls = [Serve |-> 0, Shutdown |-> 0, Close |-> 0, ready |-> 0, done |-> 0,
                psHook |-> 0]
    /\ sigSent = 0
    /\ graceElapsed = FALSE
    /\ hist = <<>>
    /\ state = "Unknown"
    /\ sigCalls = [notify |-> 0, stop |-> 0]
    /\ newPc = "call"
    /\ svr \in {"nil", "server"}
    /\ options \in OptionLists(MaxOptions)
    /\ applied = 0
    /\ cfg = zeroRunner
    /\ newRet = "none"
    /\ newErr = "none"
    /\ psHook = FALSE
    /\ escOK = FALSE

-----------------------------------------------------------------------------
\* newRunner, and the package-level Run around it.

\* if svr == nil { return nil, errors.New("nil Server") }; r := &Runner{...}
newRunner_call ==
    /\ newPc = "call"
    /\ IF svr = "nil"
          THEN /\ newRet' = "nil"
               /\ newErr' = "nil Server"
               /\ newPc' = "returned"
               /\ UNCHANGED <<cfg, state>>
          ELSE /\ cfg' = defaultRunner
               /\ state' = "NotStarted"
               /\ newPc' = "apply"
               /\ UNCHANGED <<newRet, newErr>>
    /\ UNCHANGED <<runPc, pc1, pc2, callerErr, ctxErr, sctxErr, ch, subscribed,
                   chClosed, wsErr, ready, done, once, egErr, g1Ret, g2Ret,
                   result, serveRet, shutdownRet, closeRet, calls, sigSent,
                   graceElapsed, hist, psHook, escOK, sigCalls, svr, options,
                   applied>>

\* One round of the loop: o.set(r) for the next option.
newRunner_set ==
    /\ newPc = "apply"
    /\ applied < Len(options)
    /\ ~setPanics(options[applied + 1])
    /\ cfg' = set(options[applied + 1], cfg)
    /\ psHook' = (cfg'.psHook # "nil")
    /\ escOK' = cfg'.escOK
    /\ applied' = applied + 1
    /\ UNCHANGED <<runPc, pc1, pc2, callerErr, ctxErr, sctxErr, ch, subscribed,
                   chClosed, wsErr, ready, done, once, egErr, g1Ret, g2Ret,
                   result, serveRet, shutdownRet, closeRet, calls, sigSent,
                   graceElapsed, hist, state, sigCalls, newPc, svr, options,
                   newRet, newErr>>

\* One round of the loop in which o.set(r) panics: newRunner does not return.
newRunner_set_panic ==
    /\ newPc = "apply"
    /\ applied < Len(options)
    /\ setPanics(options[applied + 1])
    /\ newPc' = "panicked"
    /\ UNCHANGED <<runPc, pc1, pc2, callerErr, ctxErr, sctxErr, ch, subscribed,
                   chClosed, wsErr, ready, done, once, egErr, g1Ret, g2Ret,
                   result, serveRet, shutdownRet, closeRet, calls, sigSent,
                   graceElapsed, hist, state, psHook, escOK, sigCalls, svr,
                   options, applied, cfg, newRet, newErr>>

\* After the loop: the two checks, then return r, nil.
newRunner_return ==
    /\ newPc = "apply"
    /\ applied = Len(options)
    /\ newErr' = validate(cfg)
    /\ newRet' = IF validate(cfg) = "nil" THEN "r" ELSE "nil"
    /\ newPc' = "returned"
    /\ UNCHANGED <<runPc, pc1, pc2, callerErr, ctxErr, sctxErr, ch, subscribed,
                   chClosed, wsErr, ready, done, once, egErr, g1Ret, g2Ret,
                   result, serveRet, shutdownRet, closeRet, calls, sigSent,
                   graceElapsed, hist, state, psHook, escOK, sigCalls, svr,
                   options, applied, cfg>>

\* Package-level Run: r, err := newRunner(svr, options); if err != nil
\* { return err }
Run_newRunnerFailed ==
    /\ runPc = "new"
    /\ newPc = "returned"
    /\ newRet = "nil"
    /\ result' = Raw(newErr)
    /\ runPc' = "returned"
    /\ UNCHANGED <<pc1, pc2, callerErr, ctxErr, sctxErr, ch, subscribed,
                   chClosed, wsErr, ready, done, once, egErr, g1Ret, g2Ret,
                   serveRet, shutdownRet, closeRet, calls, sigSent,
                   graceElapsed, hist, state, psHook, escOK, sigCalls, newVars>>

-----------------------------------------------------------------------------
\* Environment: the caller's context, the OS signal source, the grace timer.

\* The caller cancels its context, or the context's own deadline fires.
CallerDone(e) ==
    /\ callerErr = "nil"
    /\ runPc # "returned"
    /\ callerErr' = e
    /\ ctxErr' = IF ctxErr = "unset" THEN ctxErr ELSE Propagate(ctxErr, e)
    /\ sctxErr' = IF sctxErr = "unset" THEN sctxErr ELSE Propagate(sctxErr, e)
    /\ hist' = Log("callerDone")
    /\ UNCHANGED <<runPc, pc1, pc2, ch, subscribed, chClosed, wsErr, ready, done,
                   once, egErr, g1Ret, g2Ret, result, serveRet, shutdownRet,
                   closeRet, calls, sigSent,
                   graceElapsed,
                   state, psHook, escOK, sigCalls, newVars>>

\* A trigger signal is emitted.  signal.Notify's channel send never blocks:
\* the signal is queued when ch is subscribed and has room, and dropped
\* otherwise.
EmitSignal ==
    /\ sigSent < MaxSignals
    /\ runPc = "running"
    /\ sigSent' = sigSent + 1
    /\ IF subscribed /\ Len(ch) < 1
          THEN /\ ch' = Append(ch, "SIGTERM")
               /\ hist' = Log("emit")
          ELSE /\ ch' = ch
               /\ hist' = Log("emit")
    /\ UNCHANGED <<runPc, pc1, pc2, callerErr, ctxErr, sctxErr, subscribed,
                   chClosed, wsErr, ready, done, once, egErr, g1Ret, g2Ret,
                   result, serveRet, shutdownRet, closeRet, calls,
                   graceElapsed,
                   state, psHook, escOK, sigCalls, newVars>>

\* r.period elapses while Shutdown is in progress: the timer of
\* context.WithTimeout(ctx, r.period) fires.
GraceExpires ==
    /\ pc1 = "shutdown"
    /\ ~graceElapsed
    /\ graceElapsed' = TRUE
    /\ sctxErr' = Propagate(sctxErr, "DeadlineExceeded")
    /\ UNCHANGED <<runPc, pc1, pc2, callerErr, ctxErr, ch, subscribed, chClosed,
                   wsErr, ready, done, once, egErr, g1Ret, g2Ret, result,
                   serveRet, shutdownRet, closeRet, calls, sigSent, hist,
                   state, psHook, escOK, sigCalls, newVars>>

-----------------------------------------------------------------------------
\* Runner.Run: errgroup.WithContext, context.WithCancel, two eg.Go calls.
Run_call ==
    /\ runPc = "new"
    /\ newRet = "r"
    /\ runPc' = "running"
    /\ ctxErr' = callerErr
    /\ pc1' = "start"
    /\ pc2' = "start"
    /\ UNCHANGED <<callerErr, sctxErr, ch, subscribed, chClosed, wsErr, ready,
                   done, once, egErr, g1Ret, g2Ret, result, serveRet,
                   shutdownRet, closeRet, calls, sigSent, hist,
                   graceElapsed,
                   state, psHook, escOK, sigCalls, newVars>>

\* Variant of egRecord without errOnce: every non-nil error overwrites g.err.
egRecord_lastErrorWins(ret) ==
    /\ egErr' = IF ret # Nil THEN ret ELSE egErr
    /\ ctxErr' = IF ret # Nil THEN Cancel(ctxErr) ELSE ctxErr
    /\ sctxErr' = IF ret # Nil /\ sctxErr = "nil" THEN "Canceled" ELSE sctxErr

\* errgroup: a goroutine's function has returned ret; the first non-nil
\* error is kept and cancels the group's context.
egRecord(ret) ==
    /\ egErr' = IF ret # Nil /\ egErr = Nil THEN ret ELSE egErr
    /\ ctxErr' = IF ret # Nil /\ egErr = Nil THEN Cancel(ctxErr) ELSE ctxErr
    /\ sctxErr' = IF ret # Nil /\ egErr = Nil /\ sctxErr = "nil"
                     THEN "Canceled" ELSE sctxErr

-----------------------------------------------------------------------------
\* Goroutine #1: signal / shutdown path.

\* waitForSignal: make(chan os.Signal, 1); sig.notify(ch, r.signals...)
waitForSignal_notify ==
    /\ pc1 = "start"
    /\ pc1' = "select"
    /\ ch' = <<>>
    /\ chClosed' = FALSE
    /\ subscribed' = TRUE
    /\ sigCalls' = [sigCalls EXCEPT !.notify = @ + 1]
    /\ UNCHANGED <<runPc, pc2, callerErr, ctxErr, sctxErr, wsErr,
                   ready, done, once, egErr, g1Ret, g2Ret, result, serveRet,
                   shutdownRet, closeRet, calls, sigSent, hist,
                   graceElapsed,
                   state, psHook, escOK, newVars>>

\* select: case <-ctx.Done(): return nil, ctx.Err()
waitForSignal_ctxDone ==
    /\ pc1 = "select"
    /\ ctxErr # "nil"
    /\ wsErr' = ctxErr
    /\ pc1' = "stop"
    /\ UNCHANGED <<runPc, pc2, callerErr, ctxErr, sctxErr, ch, subscribed,
                   chClosed, ready, done, once, egErr, g1Ret, g2Ret, result,
                   serveRet, shutdownRet, closeRet, calls, sigSent, hist,
                   graceElapsed,
                   state, psHook, escOK, sigCalls, newVars>>

\* select: case sig := <-ch: return sig, nil
waitForSignal_recv ==
    /\ pc1 = "select"
    /\ Len(ch) > 0
    /\ ch' = Tail(ch)
    /\ wsErr' = "nil"
    /\ pc1' = "stop"
    /\ hist' = Log("observe")
    /\ UNCHANGED <<runPc, pc2, callerErr, ctxErr, sctxErr, subscribed, chClosed,
                   ready, done, once, egErr, g1Ret, g2Ret, result, serveRet,
                   shutdownRet, closeRet, calls, sigSent,
                   graceElapsed,
                   state, psHook, escOK, sigCalls, newVars>>

\* Variant of waitForSignal_stop with the deferred calls in the other order:
\* ch is closed while the subscription is still in force.
waitForSignal_stop_closesFirst ==
    /\ pc1 = "stop"
    /\ chClosed' = TRUE
    /\ pc1' = "closeCh"
    /\ UNCHANGED <<runPc, pc2, callerErr, ctxErr, sctxErr, ch, subscribed, wsErr,
                   ready, done, once, egErr, g1Ret, g2Ret, result, serveRet,
                   shutdownRet, closeRet, calls, sigSent, hist, graceElapsed,
                   state, psHook, escOK, sigCalls, newVars>>

\* defer sig.stop(ch)
waitForSignal_stop ==
    /\ pc1 = "stop"
    /\ subscribed' = FALSE
    /\ sigCalls' = [sigCalls EXCEPT !.stop = @ + 1]
    /\ pc1' = "closeCh"
    /\ UNCHANGED <<runPc, pc2, callerErr, ctxErr, sctxErr, ch, chClosed, wsErr,
                   ready, done, once, egErr, g1Ret, g2Ret, result, serveRet,
                   shutdownRet, closeRet, calls, sigSent, hist,
                   graceElapsed,
                   state, psHook, escOK, newVars>>

\* Variant of waitForSignal_return without "if err != nil { return err }":
\* goroutine #1 goes on to Shutdown after a cancellation too.
waitForSignal_return_ignoresErr ==
    /\ pc1 = "closeCh"
    /\ chClosed' = TRUE
    /\ pc1' = "gotSig"
    /\ UNCHANGED <<runPc, pc2, callerErr, ctxErr, sctxErr, ch, subscribed, wsErr,
                   ready, done, once, egErr, g1Ret, g2Ret, result, serveRet,
                   shutdownRet, closeRet, calls, sigSent, hist, graceElapsed,
                   state, psHook, escOK, sigCalls, newVars>>

\* defer close(ch); back in goroutine #1: if err != nil { return err }
waitForSignal_return ==
    /\ pc1 = "closeCh"
    /\ chClosed' = TRUE
    /\ IF wsErr # "nil"
          THEN /\ g1Ret' = Raw(wsErr)
               /\ pc1' = "defer"
          ELSE /\ g1Ret' = g1Ret
               /\ pc1' = "gotSig"
    /\ UNCHANGED <<runPc, pc2, callerErr, ctxErr, sctxErr, ch, subscribed, wsErr,
                   ready, done, once, egErr, g2Ret, result, serveRet,
                   shutdownRet, closeRet, calls, sigSent, hist,
                   graceElapsed,
                   state, psHook, escOK, sigCalls, newVars>>

\* Variant of Shutdown_call in which the context handed to Shutdown is made
\* from context.Background() instead of the run context.
Shutdown_call_background ==
    /\ pc1 = "gotSig"
    /\ sctxErr' = "nil"
    /\ calls' = Bump("Shutdown")
    /\ pc1' = "shutdown"
    /\ UNCHANGED <<runPc, pc2, callerErr, ctxErr, ch, subscribed, chClosed, wsErr,
                   ready, done, once, egErr, g1Ret, g2Ret, result, serveRet,
                   shutdownRet, closeRet, sigSent, hist, graceElapsed,
                   state, psHook, escOK, sigCalls, newVars>>

\* ctx, cancel2 := context.WithTimeout(ctx, r.period); r.server.Shutdown(ctx)
Shutdown_call ==
    /\ pc1 = "gotSig"
    /\ sctxErr' = ctxErr
    /\ calls' = Bump("Shutdown")
    /\ pc1' = "shutdown"
    /\ UNCHANGED <<runPc, pc2, callerErr, ctxErr, ch, subscribed, chClosed, wsErr,
                   ready, done, once, egErr, g1Ret, g2Ret, result, serveRet,
                   shutdownRet, closeRet, sigSent, hist,
                   graceElapsed,
                   state, psHook, escOK, sigCalls, newVars>>

\* What Shutdown may return: nil or an error of its own at any time, or
\* its context's error once that context is done.
ShutdownOutcomes ==
    {"nil"} \cup ShutdownErrors \cup (IF sctxErr = "nil" THEN {} ELSE {sctxErr})

\* Variant of switchCase without the nil case: a nil error takes the default
\* branch.
switchCase_noNilCase(err) ==
    IF err = "DeadlineExceeded" THEN "DeadlineExceeded" ELSE "default"

\* Variant of switchCase in which every non-nil error takes the
\* DeadlineExceeded branch.
switchCase_anyErrorExpires(err) ==
    IF err = "nil" THEN "nil" ELSE "DeadlineExceeded"

\* switch err { case nil: ... case context.DeadlineExceeded: ... default: ... }
switchCase(err) ==
    CASE err = "nil" -> "nil"
      [] err = "DeadlineExceeded" -> "DeadlineExceeded"
      [] OTHER -> "default"

\* Shutdown returns err and the switch runs.  In the DeadlineExceeded case
\* r.server.Close() is invoked; in the default case cancel() is called.
Shutdown_return(err) ==
    /\ pc1 = "shutdown"
    /\ err \in ShutdownOutcomes
    /\ shutdownRet' = err
    /\ CASE switchCase(err) = "nil" ->
              /\ g1Ret' = Nil
              /\ pc1' = "defer"
              /\ UNCHANGED <<ctxErr, sctxErr, calls>>
         [] switchCase(err) = "DeadlineExceeded" ->
              /\ calls' = Bump("Close")
              /\ pc1' = "closing"
              /\ UNCHANGED <<ctxErr, sctxErr, g1Ret>>
         [] OTHER ->
              /\ ctxErr' = Cancel(ctxErr)
              /\ sctxErr' = Cancel(sctxErr)
              /\ g1Ret' = LameDuckError(FALSE, err)
              /\ pc1' = "defer"
              /\ UNCHANGED calls
    /\ UNCHANGED <<runPc, pc2, callerErr, ch, subscribed, chClosed, wsErr, ready,
                   done, once, egErr, g2Ret, result, serveRet, closeRet, sigSent,
                   graceElapsed, hist,
                   state, psHook, escOK, sigCalls, newVars>>

\* Variant of Close_return that leaves Expired unset.
Close_return_notExpired(err) ==
    /\ pc1 = "closing"
    /\ err \in {"nil"} \cup CloseErrors
    /\ closeRet' = err
    /\ g1Ret' = LameDuckError(FALSE, err)
    /\ pc1' = "defer"
    /\ UNCHANGED <<runPc, pc2, callerErr, ctxErr, sctxErr, ch, subscribed,
                   chClosed, wsErr, ready, done, once, egErr, g2Ret, result,
                   serveRet, shutdownRet, calls, sigSent, graceElapsed, hist,
                   state, psHook, escOK, sigCalls, newVars>>

\* Close returns err: return &LameDuckError{Expired: true, Err: err}
Close_return(err) ==
    /\ pc1 = "closing"
    /\ err \in {"nil"} \cup CloseErrors
    /\ closeRet' = err
    /\ g1Ret' = LameDuckError(TRUE, err)
    /\ pc1' = "defer"
    /\ UNCHANGED <<runPc, pc2, callerErr, ctxErr, sctxErr, ch, subscribed,
                   chClosed, wsErr, ready, done, once, egErr, g2Ret, result,
                   serveRet, shutdownRet, calls, sigSent, hist,
                   graceElapsed,
                   state, psHook, escOK, sigCalls, newVars>>

\* Variant of close that leaves r.done open.
close_leavesDoneOpen ==
    /\ pc1 = "defer"
    /\ sctxErr' = IF sctxErr = "unset" THEN sctxErr ELSE Cancel(sctxErr)
    /\ pc1' = "exit"
    /\ UNCHANGED <<runPc, pc2, callerErr, ctxErr, ch, subscribed, chClosed, wsErr,
                   ready, done, once, calls, egErr, g1Ret, g2Ret, result,
                   serveRet, shutdownRet, closeRet, sigSent, graceElapsed, hist,
                   state, psHook, escOK, sigCalls, newVars>>

\* Variant of close in which r.close() is deferred only after waitForSignal
\* has succeeded: the cancellation exit leaves r.done open.
close_notOnCancel ==
    /\ pc1 = "defer"
    /\ sctxErr' = IF sctxErr = "unset" THEN sctxErr ELSE Cancel(sctxErr)
    /\ once' = (once \/ wsErr = "nil")
    /\ done' = (done \/ (~once /\ wsErr = "nil"))
    /\ calls' = IF once \/ wsErr # "nil" THEN calls ELSE Bump("done")
    /\ pc1' = "exit"
    /\ UNCHANGED <<runPc, pc2, callerErr, ctxErr, ch, subscribed, chClosed, wsErr,
                   ready, egErr, g1Ret, g2Ret, result, serveRet, shutdownRet,
                   closeRet, sigSent, graceElapsed, hist, state, psHook, escOK, sigCalls, newVars>>

\* Variant of close that also runs r.close() while Close is still in progress.
close_beforeCloseReturns ==
    /\ pc1 \in {"defer", "closing"}
    /\ sctxErr' = IF sctxErr = "unset" THEN sctxErr ELSE Cancel(sctxErr)
    /\ once' = TRUE
    /\ done' = (done \/ ~once)
    /\ calls' = IF once THEN calls ELSE Bump("done")
    /\ pc1' = IF pc1 = "defer" THEN "exit" ELSE pc1
    /\ UNCHANGED <<runPc, pc2, callerErr, ctxErr, ch, subscribed, chClosed, wsErr,
                   ready, egErr, g1Ret, g2Ret, result, serveRet, shutdownRet,
                   closeRet, sigSent, graceElapsed, hist,
                   state, psHook, escOK, sigCalls, newVars>>

\* Deferred calls of goroutine #1: cancel2() (when registered), r.close().
\* Runner.close: r.once.Do(func() { close(r.done) }).
close ==
    /\ pc1 = "defer"
    /\ sctxErr' = IF sctxErr = "unset" THEN sctxErr ELSE Cancel(sctxErr)
    /\ once' = TRUE
    /\ done' = (done \/ ~once)
    /\ calls' = IF once THEN calls ELSE Bump("done")
    /\ pc1' = "exit"
    /\ UNCHANGED <<runPc, pc2, callerErr, ctxErr, ch, subscribed, chClosed, wsErr,
                   ready, egErr, g1Ret, g2Ret, result, serveRet, shutdownRet,
                   closeRet, sigSent, hist,
                   graceElapsed,
                   state, psHook, escOK, sigCalls, newVars>>

\* errgroup takes goroutine #1's return value.
Go1_exit ==
    /\ pc1 = "exit"
    /\ egRecord(g1Ret)
    /\ pc1' = "finished"
    /\ hist' = Log("exit1")
    /\ UNCHANGED <<runPc, pc2, callerErr, ch, subscribed, chClosed, wsErr, ready,
                   done, once, g1Ret, g2Ret, result, serveRet, shutdownRet,
                   closeRet, calls, sigSent,
                   graceElapsed,
                   state, psHook, escOK, sigCalls, newVars>>

-----------------------------------------------------------------------------
\* Goroutine #2: serve path.

\* Variant of close_ready that goes on to Serve without closing r.ready.
close_ready_skipped ==
    /\ pc2 = "start"
    /\ pc2' = "callServe"
    /\ UNCHANGED <<runPc, pc1, callerErr, ctxErr, sctxErr, ch, subscribed,
                   chClosed, wsErr, ready, done, once, egErr, g1Ret, g2Ret,
                   result, serveRet, shutdownRet, closeRet, calls, sigSent,
                   graceElapsed, hist,
                   state, psHook, escOK, sigCalls, newVars>>

\* close(r.ready)
close_ready ==
    /\ pc2 = "start"
    /\ ~ready
    /\ ready' = TRUE
    /\ calls' = Bump("ready")
    /\ pc2' = "callServe"
    /\ UNCHANGED <<runPc, pc1, callerErr, ctxErr, sctxErr, ch, subscribed,
                   chClosed, wsErr, done, once, egErr, g1Ret, g2Ret, result,
                   serveRet, shutdownRet, closeRet, sigSent, hist,
                   graceElapsed,
                   state, psHook, escOK, sigCalls, newVars>>

\* close(r.ready) on a Runner whose ready channel is already closed: the
\* runtime panics ("close of closed channel") and the process dies.
close_ready_panic ==
    /\ pc2 = "start"
    /\ ready
    /\ runPc' = "panicked"
    /\ pc1' = "dead"
    /\ pc2' = "dead"
    /\ UNCHANGED <<callerErr, ctxErr, sctxErr, ch, subscribed, chClosed, wsErr,
                   ready, done, once, egErr, g1Ret, g2Ret, result, serveRet,
                   shutdownRet, closeRet, calls, sigSent, graceElapsed, hist,
                   state, psHook, escOK, sigCalls, newVars>>

\* r.server.Serve(ctx) is invoked.
Serve_call ==
    /\ pc2 = "callServe"
    /\ calls' = Bump("Serve")
    /\ pc2' = "serving"
    /\ UNCHANGED <<runPc, pc1, callerErr, ctxErr, sctxErr, ch, subscribed,
                   chClosed, wsErr, ready, done, once, egErr, g1Ret, g2Ret,
                   result, serveRet, shutdownRet, closeRet, sigSent, hist,
                   graceElapsed,
                   state, psHook, escOK, sigCalls, newVars>>

\* Runner.serve: Serve's error with http.ErrServerClosed absorbed when
\* r.escOK is set.  (Runner.Run does not call it.)
serve(err) == IF escOK /\ err = "ErrServerClosed" THEN "nil" ELSE err

\* What Serve may return: nil or an error of its own at any time, or its
\* context's error once the run context is done.
ServeOutcomes ==
    {"nil"} \cup ServeErrors \cup (IF ctxErr = "nil" THEN {} ELSE {ctxErr})

\* Variant of Serve_return that wraps Serve's error in a LameDuckError.
Serve_return_wrapped(err) ==
    /\ pc2 = "serving"
    /\ err \in ServeOutcomes
    /\ serveRet' = err
    /\ IF err # "nil"
          THEN /\ g2Ret' = LameDuckError(FALSE, err)
               /\ pc2' = "exit"
          ELSE /\ g2Ret' = g2Ret
               /\ pc2' = "wait"
    /\ hist' = Log("serveRet")
    /\ UNCHANGED <<runPc, pc1, callerErr, ctxErr, sctxErr, ch, subscribed,
                   chClosed, wsErr, ready, done, once, egErr, g1Ret, result,
                   shutdownRet, closeRet, calls, sigSent, graceElapsed, state,
                   psHook, escOK, sigCalls, newVars>>

\* Serve returns err: if err != nil { return err }
Serve_return(err) ==
    /\ pc2 = "serving"
    /\ err \in ServeOutcomes
    /\ serveRet' = err
    /\ IF err # "nil"
          THEN /\ g2Ret' = Raw(err)
               /\ pc2' = "exit"
               /\ hist' = Log("serveRet")
          ELSE /\ g2Ret' = g2Ret
               /\ pc2' = "wait"
               /\ hist' = Log("serveRet")
    /\ UNCHANGED <<runPc, pc1, callerErr, ctxErr, sctxErr, ch, subscribed,
                   chClosed, wsErr, ready, done, once, egErr, g1Ret, result,
                   shutdownRet, closeRet, calls, sigSent,
                   graceElapsed,
                   state, psHook, escOK, sigCalls, newVars>>

\* Variant of Serve_wait without the select: the serve path returns nil as
\* soon as Serve has returned nil.
Serve_wait_noSelect ==
    /\ pc2 = "wait"
    /\ g2Ret' = Nil
    /\ pc2' = "exit"
    /\ UNCHANGED <<runPc, pc1, callerErr, ctxErr, sctxErr, ch, subscribed,
                   chClosed, wsErr, ready, done, once, egErr, g1Ret, result,
                   serveRet, shutdownRet, closeRet, calls, sigSent, hist,
                   graceElapsed, state, psHook, escOK, sigCalls, newVars>>

\* select { case <-ctx.Done(): case <-r.done: }; return nil
Serve_wait ==
    /\ pc2 = "wait"
    /\ ctxErr # "nil" \/ done
    /\ g2Ret' = Nil
    /\ pc2' = "exit"
    /\ UNCHANGED <<runPc, pc1, callerErr, ctxErr, sctxErr, ch, subscribed,
                   chClosed, wsErr, ready, done, once, egErr, g1Ret, result,
                   serveRet, shutdownRet, closeRet, calls, sigSent, hist,
                   graceElapsed,
                   state, psHook, escOK, sigCalls, newVars>>

\* errgroup takes goroutine #2's return value.
Go2_exit ==
    /\ pc2 = "exit"
    /\ egRecord(g2Ret)
    /\ pc2' = "finished"
    /\ hist' = Log("exit2")
    /\ UNCHANGED <<runPc, pc1, callerErr, ch, subscribed, chClosed, wsErr, ready,
                   done, once, g1Ret, g2Ret, result, serveRet, shutdownRet,
                   closeRet, calls, sigSent,
                   graceElapsed,
                   state, psHook, escOK, sigCalls, newVars>>

-----------------------------------------------------------------------------
\* Variant of Run_return in which Wait returns when the first goroutine has
\* finished.
Run_return_firstDone ==
    /\ runPc = "running"
    /\ pc1 = "finished" \/ pc2 = "finished"
    /\ result' = egErr
    /\ ctxErr' = Cancel(ctxErr)
    /\ runPc' = "returned"
    /\ UNCHANGED <<pc1, pc2, callerErr, sctxErr, ch, subscribed, chClosed, wsErr,
                   ready, done, once, egErr, g1Ret, g2Ret, serveRet, shutdownRet,
                   closeRet, calls, sigSent, hist, graceElapsed,
                   state, psHook, escOK, sigCalls, newVars>>

-----------------------------------------------------------------------------
\* return eg.Wait(): both goroutines are finished; Wait cancels the group's
\* context and returns g.err; the deferred cancel() runs.
Run_return ==
    /\ runPc = "running"
    /\ pc1 = "finished"
    /\ pc2 = "finished"
    /\ result' = egErr
    /\ ctxErr' = Cancel(ctxErr)
    /\ runPc' = "returned"
    /\ UNCHANGED <<pc1, pc2, callerErr, sctxErr, ch, subscribed, chClosed, wsErr,
                   ready, done, once, egErr, g1Ret, g2Ret, serveRet, shutdownRet,
                   closeRet, calls, sigSent, hist,
                   graceElapsed,
                   state, psHook, escOK, sigCalls, newVars>>

\* Runner.State: Unknown for a nil Runner or a nil r.done, else r.state.
\* Every Runner of the model was built by newRunner, so r.done is not nil.
State == state

\* Runner.Run is called again on a Runner whose first Run has returned:
\* a new errgroup and run context, the same ready, done and once.
Run_again ==
    /\ runPc = "returned"
    /\ ~Seen("rerun")
    /\ runPc' = "running"
    /\ \E c \in {"nil", callerErr} :
          /\ callerErr' = c
          /\ ctxErr' = c
    /\ sctxErr' = "unset"
    /\ egErr' = Nil
    /\ g1Ret' = NoRet
    /\ g2Ret' = NoRet
    /\ graceElapsed' = FALSE
    /\ pc1' = "start"
    /\ pc2' = "start"
    /\ hist' = Log("rerun")
    /\ UNCHANGED <<ch, subscribed, chClosed, wsErr, ready, done, once, result,
                   serveRet, shutdownRet, closeRet, calls, sigSent, state,
                   psHook, escOK, sigCalls, newVars>>

Next ==
    \/ \E e \in {"Canceled", "DeadlineExceeded"} : CallerDone(e)
    \/ EmitSignal
    \/ GraceExpires
    \/ Run_call
    \/ waitForSignal_notify
    \/ waitForSignal_ctxDone
    \/ waitForSignal_recv
    \/ waitForSignal_stop
    \/ waitForSignal_return
    \/ Shutdown_call
    \/ \E err \in {"nil", "Canceled", "DeadlineExceeded"} \cup ShutdownErrors :
          Shutdown_return(err)
    \/ \E err \in {"nil"} \cup CloseErrors : Close_return(err)
    \/ close
    \/ Go1_exit
    \/ close_ready
    \/ Serve_call
    \/ \E err \in {"nil", "Canceled", "DeadlineExceeded"} \cup ServeErrors :
          Serve_return(err)
    \/ Serve_wait
    \/ Go2_exit
    \/ Run_return

Spec == Init /\ [][Next]_vars

\* One Run, and a second Run on the same Runner after the first returned.
NextRerun ==
    \/ Next
    \/ Run_again
    \/ close_ready_panic

SpecRerun == Init /\ [][NextRerun]_vars

\* A cooperative Server: Shutdown returns once its context is done, Close
\* returns, and Serve returns once Shutdown or Close has been invoked or the
\* run context is done.
CooperativeShutdown ==
    /\ sctxErr # "nil"
    /\ \E err \in {"nil", "Canceled", "DeadlineExceeded"} \cup ShutdownErrors :
          Shutdown_return(err)

CooperativeClose == \E err \in {"nil"} \cup CloseErrors : Close_return(err)

CooperativeServe ==
    /\ calls.Shutdown > 0 \/ calls.Close > 0 \/ ctxErr # "nil"
    /\ \E err \in {"nil", "Canceled", "DeadlineExceeded"} \cup ServeErrors :
          Serve_return(err)

\* The steps of goroutine #1 and of goroutine #2 that are the Runner's own.
Path1 ==
    \/ waitForSignal_notify
    \/ waitForSignal_ctxDone
    \/ waitForSignal_recv
    \/ waitForSignal_stop
    \/ waitForSignal_return
    \/ Shutdown_call
    \/ close
    \/ Go1_exit

Path2 ==
    \/ close_ready
    \/ Serve_call
    \/ Serve_wait
    \/ Go2_exit

\* The Go scheduler runs every runnable goroutine, the timer of WithTimeout
\* fires, and the Server is cooperative.
Fairness ==
    /\ WF_vars(Path1)
    /\ WF_vars(Path2)
    /\ WF_vars(Run_return)
    /\ WF_vars(GraceExpires)
    /\ WF_vars(CooperativeShutdown)
    /\ WF_vars(CooperativeClose)
    /\ WF_vars(CooperativeServe)

SpecFair == Init /\ [][Next]_vars /\ Fairness

\* NewRunner, or the package-level Run up to the point where it calls
\* Runner.Run or returns newRunner's error.
NextOptions ==
    \/ newRunner_call
    \/ newRunner_set
    \/ newRunner_set_panic
    \/ newRunner_return
    \/ Run_newRunnerFailed
    \/ Run_call

SpecOptions == InitOptions /\ [][NextOptions]_vars

-----------------------------------------------------------------------------
\* Vocabulary of the properties.

Returned == runPc = "returned"

\* Serve has returned a non-nil error.
ServeFailed == serveRet \notin {"none", "nil"}

\* Shutdown has returned an error other than context.DeadlineExceeded.
ShutdownFailed == shutdownRet \notin {"none", "nil", "DeadlineExceeded"}

\* The error the errgroup keeps: the first non-nil return value, in the
\* order in which the two goroutines handed their return values over.
FirstError ==
    IF g2Ret # Nil /\ (g1Ret = Nil \/ Before("exit2", "exit1")) THEN g2Ret ELSE g1Ret

TypeOK ==
    /\ runPc \in {"new", "running", "returned"}
    /\ Len(ch) <= 1
    /\ sigSent \in 0..MaxSignals
    /\ \A f \in DOMAIN calls : calls[f] \in 0..1

-----------------------------------------------------------------------------
\* C1: if Serve returns a non-nil error E before any trigger signal has been
\* delivered, Run returns exactly E, unwrapped, and Close is never invoked.
\* Stated for the runs in which the caller's context is never done.
C1_ServeErrorReturnedRaw ==
    (ServeFailed /\ Before("serveRet", "emit") /\ callerErr = "nil")
        => /\ calls.Close = 0
           /\ Returned => result = Raw(serveRet)

C4_ShutdownErrorWrapped ==
    (ShutdownFailed /\ callerErr = "nil" /\ serveRet \notin ServeErrors)
        => /\ calls.Close = 0
           /\ Returned => result = LameDuckError(FALSE, shutdownRet)

\* C5: if the caller's context is canceled before any trigger signal is
\* delivered and before Serve has failed, Run returns the context's error
\* itself and neither Shutdown nor Close is invoked.
C5_CancelReturnedRaw ==
    (/\ Before("callerDone", "emit")
     /\ ~(ServeFailed /\ Before("serveRet", "callerDone")))
        => /\ calls.Shutdown = 0 /\ calls.Close = 0
           /\ Returned => result = Raw(callerErr)

\* C6: Close has been invoked at most once, and it has been invoked if and
\* only if Shutdown has returned context.DeadlineExceeded; it is never
\* invoked before Shutdown returns.
C6_CloseIffDeadlineExceeded ==
    /\ calls.Close = (IF shutdownRet = "DeadlineExceeded" THEN 1 ELSE 0)
    /\ calls.Close <= calls.Shutdown
    /\ pc1 = "shutdown" => calls.Close = 0

C6_Witness ==
    calls.Close = 1 /\ shutdownRet = "DeadlineExceeded" /\ pc1 = "finished"

C8_NoShutdownAfterServeFailure ==
    (ServeFailed /\ Before("serveRet", "observe")) => calls.Shutdown = 0

\* C9: the ready signal is satisfied exactly once per run, and it is already
\* satisfied when Serve is invoked.
C9_ReadyOnceBeforeServe ==
    /\ calls.ready <= 1
    /\ ready <=> calls.ready = 1
    /\ calls.Serve > 0 => ready
    /\ pc2 \in {"serving", "wait", "exit", "finished"} => ready
    /\ Returned => calls.ready = 1

C9_Witness == pc2 = "serving" /\ calls.Serve = 1 /\ ready

\* State part of C10.
DoneAfterOutcome ==
    /\ calls.done <= 1
    /\ done <=> calls.done = 1
    /\ done => (pc1 \in {"exit", "finished"} /\ g1Ret # NoRet)
    /\ pc1 = "closing" => ~done
    /\ (calls.Close = 1 /\ closeRet = "none") => ~done

\* C10: the done marker goes from unsatisfied to satisfied at most once (it
\* is closed at most once and, once satisfied, stays satisfied), and never
\* before the signal path has determined its outcome: while Close is in
\* progress done is still unsatisfied.
C10_DoneOnceAfterOutcome == []DoneAfterOutcome /\ [][done => done']_vars

C10_Witness == done /\ calls.Close = 1 /\ closeRet # "none"

-----------------------------------------------------------------------------
\* C11: on every exit of the signal/shutdown path the done marker is
\* satisfied before the path returns, so done is satisfied in every state in
\* which Run has returned.
C11_DoneOnEveryExit ==
    /\ pc1 \in {"exit", "finished"} => done
    /\ g1Ret # NoRet /\ pc1 # "defer" => done
    /\ Returned => done

C11_Witness ==
    Returned /\ done /\ wsErr \in {"Canceled", "DeadlineExceeded"} /\ calls.Shutdown = 0

C13_ExpiredOnlyIfGraceElapsed ==
    (Returned /\ result.lde /\ result.expired /\ Before("observe", "callerDone"))
        => graceElapsed

\* C14: State() is NotStarted until the serve path begins, and Running once
\* the ready signal is satisfied, as long as Serve has not failed and no
\* trigger signal has been observed.
C14_RunningOnceReady ==
    /\ ~ready => State = "NotStarted"
    /\ (ready /\ ~ServeFailed /\ ~Seen("observe") /\ ~Returned) => State = "Running"

\* C15: if Serve returns an error before any shutdown trigger fires, State()
\* is Failed after Run has returned.
C15_FailedAfterServeError ==
    (Returned /\ ServeFailed /\ Before("serveRet", "emit") /\ callerErr = "nil")
        => State = "Failed"

\* C16: if a shutdown trigger fires, State() is Stopped after Run has
\* returned, whatever the outcome.
C16_StoppedAfterTrigger ==
    (Returned /\ Seen("observe") /\ serveRet = "nil") => State = "Stopped"

\* C17: after a first Run has ended, a second Run call on the same Runner
\* never invokes Serve, Shutdown or Close again and never satisfies ready or
\* done a second time.
C17_NoSecondRun == [][Seen("rerun") => calls' = calls]_vars

\* C18: with a pre-shutdown hook configured, the hook is invoked exactly once
\* after a trigger signal is observed and before Shutdown is invoked, and
\* never when no trigger signal is observed.
C18_HookOnceBeforeShutdown ==
    psHook => /\ calls.psHook <= 1
              /\ calls.Shutdown > 0 => calls.psHook = 1
              /\ ~Seen("observe") => calls.psHook = 0

\* C19: whatever the pre-shutdown hook returns, nil or an error, the run goes
\* on: the hook has returned and Shutdown is invoked after it, so that a run
\* that ended after an observed signal is a run in which the hook has run.
C19_ShutdownFollowsHook ==
    (psHook /\ Returned /\ Seen("observe")) => (calls.psHook >= 1 /\ calls.Shutdown = 1)

\* C20: what the serve path does with Serve's result is Runner.serve's
\* result: with ErrServerClosedOK set, the sentinel http.ErrServerClosed is
\* treated as nil (the path waits and returns nil); any other error, and the
\* sentinel without the flag, is returned as it is.
C20_SentinelAbsorbed ==
    serveRet # "none" =>
        IF serve(serveRet) = "nil"
           THEN g2Ret \in {NoRet, Nil}
           ELSE g2Ret = Raw(serveRet)

-----------------------------------------------------------------------------
\* The value of the last of the first k options of the given kind, and the
\* default when there is none.
LastOf(kind, field, k, default) ==
    LET S == {i \in 1..k : options[i].kind = kind}
    IN  IF S = {} THEN default
        ELSE options[CHOOSE i \in S : \A j \in S : j <= i][field]

\* The configuration the first k options resolve to: for each field the last
\* option that sets it, over the defaults.
Resolved(k) ==
    [period |-> LastOf("period", "p", k, 3),
     signals |-> LastOf("signals", "s", k, {"SIGINT", "SIGTERM"}),
     psHook |-> LastOf("hook", "f", k, "nil"),
     escOK |-> (\E i \in 1..k : options[i].kind = "escOK")]

\* C21: construction fails with an error and yields no Runner, before Serve
\* or any signal subscription, exactly when the server is nil, or the period
\* the options resolve to is <= 0, or the signal set they resolve to is empty;
\* otherwise it yields a Runner in state NotStarted.
C21_FailsExactlyWhenInvalid ==
    LET invalid == \/ svr = "nil"
                   \/ Resolved(Len(options)).period <= 0
                   \/ Resolved(Len(options)).signals = {}
    IN  newPc \in {"returned", "panicked"} =>
            IF invalid
               THEN /\ newPc = "returned" /\ newRet = "nil"
                    /\ newErr \notin {"none", "nil"}
                    /\ pc1 = "idle" /\ pc2 = "idle"
                    /\ calls.Serve = 0 /\ sigCalls.notify = 0
               ELSE /\ newPc = "returned" /\ newRet = "r" /\ newErr = "nil"
                    /\ State = "NotStarted"

\* C22: applying WithoutLogger resolves the logging sink to a non-nil no-op
\* function and construction completes without fault.
C22_WithoutLoggerIsNoop ==
    /\ newPc # "panicked"
    /\ \A i \in 1..applied :
          (/\ options[i] = WithoutLogger
           /\ \A j \in (i + 1)..applied : options[j].kind # "logger")
              => cfg.logf = "noop"

\* C23: after any number of options have been applied, the period, the
\* signals, the hook and the flag of the Runner are the defaults (3s,
\* {SIGINT, SIGTERM}, no hook, flag off) updated by those options in order:
\* for each field the last option that sets it wins, a Signals option
\* replaces the set in force, a hook replaces the hook in force.
C23_LastOptionWins ==
    (svr = "server" /\ newPc # "call") =>
        /\ cfg.period = Resolved(applied).period
        /\ cfg.signals = Resolved(applied).signals
        /\ cfg.psHook = Resolved(applied).psHook
        /\ cfg.escOK = Resolved(applied).escOK
        /\ psHook = (Resolved(applied).psHook # "nil")
        /\ escOK = Resolved(applied).escOK

C23_Witness ==
    /\ newPc = "returned" /\ newRet = "r" /\ applied = 3
    /\ options[1] = Signals({}) /\ options[2] = WithPreShutdownHook("hook1")
    /\ options[3] = Signals({"SIGHUP"})
    /\ cfg.signals = {"SIGHUP"} /\ cfg.psHook = "hook1"

-----------------------------------------------------------------------------
ShutdownOnlyAfterSignal ==
    /\ calls.Shutdown <= 1
    /\ calls.Shutdown = 1 => (wsErr = "nil" /\ Seen("observe"))
    /\ wsErr \in {"Canceled", "DeadlineExceeded"} => calls.Shutdown = 0
    /\ ~Seen("observe") => calls.Shutdown = 0

\* C25: Shutdown is invoked at most once per run and only after the signal
\* path has received a trigger signal; it is not invoked in a run whose
\* waitForSignal ended by cancellation, and not again after it has returned.
C25_ShutdownOnceAfterSignal ==
    /\ []ShutdownOnlyAfterSignal
    /\ [][shutdownRet # "none" => calls'.Shutdown = calls.Shutdown]_vars

C25_Witness ==
    /\ Returned /\ calls.Shutdown = 1 /\ shutdownRet = "ErrShutdownFailed"
    /\ Seen("observe")

\* State part of C26.
SubscriptionScoped ==
    /\ sigCalls.notify <= 1
    /\ sigCalls.stop <= sigCalls.notify
    /\ subscribed <=> (sigCalls.notify = 1 /\ sigCalls.stop = 0)
    /\ pc1 \notin {"idle", "start", "select", "stop"}
          => (sigCalls.notify = 1 /\ sigCalls.stop = 1)
    /\ chClosed => (~subscribed /\ sigCalls.stop = 1)

\* C26: a call of waitForSignal subscribes once and unsubscribes once, the
\* unsubscribe happens before it returns on both exits, and ch is closed only
\* after the unsubscribe: nothing is delivered to ch once it is closed.
C26_SubscribeOnceUnsubscribeBeforeClose ==
    /\ []SubscriptionScoped
    /\ [][chClosed => ch' = ch]_vars

C26_Witness ==
    /\ chClosed /\ sigCalls.notify = 1 /\ sigCalls.stop = 1
    /\ wsErr = "Canceled" /\ sigSent = MaxSignals

\* C27: after Serve has returned nil the serve path returns only when the
\* run context is done or the done marker is satisfied; and Run returns nil
\* only in a run in which a trigger signal was received, Shutdown returned
\* nil, Serve returned nil and Close was never invoked.
C27_NilOnlyAfterCleanShutdown ==
    /\ (pc2 \in {"exit", "finished"} /\ serveRet = "nil")
          => (g2Ret = Nil /\ (ctxErr # "nil" \/ done))
    /\ (Returned /\ result = Nil)
          => /\ Seen("observe") /\ wsErr = "nil"
             /\ shutdownRet = "nil"
             /\ serveRet = "nil"
             /\ calls.Close = 0

C27_Witness ==
    /\ pc2 = "finished" /\ serveRet = "nil" /\ ctxErr = "nil" /\ done
    /\ shutdownRet = "nil" /\ calls.Close = 0

\* C28: the context handed to Shutdown is derived from the run context: while
\* Shutdown is in progress it is done whenever the run context or the
\* caller's context is done, canceled when the caller canceled before the
\* period elapsed; and when Shutdown returns context.Canceled the signal path
\* returns LameDuckError{Expired: false, Err: context.Canceled} and Close is
\* not invoked.
C28_ShutdownCtxDerived ==
    /\ (pc1 = "shutdown" /\ (ctxErr # "nil" \/ callerErr # "nil")) => sctxErr # "nil"
    /\ (pc1 = "shutdown" /\ callerErr = "Canceled" /\ ~graceElapsed)
          => sctxErr = "Canceled"
    /\ shutdownRet = "Canceled"
          => /\ g1Ret = LameDuckError(FALSE, "Canceled")
             /\ pc1 \in {"defer", "exit", "finished"}
             /\ calls.Close = 0

C28_Witness ==
    /\ pc1 = "defer" /\ shutdownRet = "Canceled" /\ egErr = Nil
    /\ callerErr = "Canceled" /\ Before("observe", "callerDone")
    /\ g1Ret = LameDuckError(FALSE, "Canceled")

\* C30: whenever the ready signal is satisfied, the signal path has already
\* subscribed to the trigger signals.
C30_SubscribedWhenReady ==
    ready => sigCalls.notify >= 1

\* C29: with a cooperative server and fair scheduling of both paths, a run in
\* which a trigger signal has been delivered to ch, or the caller's context
\* is done, or Serve has returned an error, eventually returns.
C29_RunEventuallyReturns ==
    (/\ runPc = "running"
     /\ Len(ch) > 0 \/ Seen("observe") \/ callerErr # "nil" \/ ServeFailed)
        ~> Returned

C29_Witness ==
    /\ Returned /\ Seen("observe") /\ callerErr = "nil"
    /\ serveRet = "nil" /\ shutdownRet = "DeadlineExceeded" /\ closeRet # "none"

====
